---- MODULE Spec2Model ----
(***************************************************************************)
(* IndexList<T>: a doubly linked list whose nodes live in one vector, with *)
(* a free list threaded through the vector and generational indexes.       *)
(* Model of src/src/lib.rs.  Positions are 0-based as in the source; the   *)
(* vector `contents` is a sequence, so position p is element p + 1.        *)
(***************************************************************************)
EXTENDS Integers, Sequences, FiniteSets

\* ------------------------------------------------------------------ bounds
\* At most MaxInserts insertions succeed (guard of the insertion actions
\* below); so the table never holds more than MaxInserts slots and at most
\* MaxInserts removals succeed.
MaxInserts == 4
\* In the specification of two independent lists, at most MaxPair insertions
\* succeed on each list.
MaxPair == 2
\* In the specification of two lists driven by the same calls, at most
\* MaxLockstep insertions succeed.
MaxLockstep == 3
\* In the specification of calls on a corrupted list, the table of the list
\* has at most MaxSlots slots.
MaxSlots == 2
\* The capacities a client reserves.
Sizes == {0, 1, 2, 3, 100}
\* The items a client inserts.
Values == {5, 10}

\* ------------------------------------------------------------------ Option<T>
None == <<>>
Some(x) == <<x>>
Unwrap(o) == o[1]

\* ------------------------------------------------------------------ data
\* Entry::Free { next_free }
Free(nf) == [tag |-> "Free", next_free |-> nf]

\* Entry::Occupied(OccupiedEntry { item, generation, next, prev })
Occupied(item, gen, next, prev) ==
    [tag |-> "Occupied", item |-> item, generation |-> gen, next |-> next, prev |-> prev]

\* Index::new(index, generation)
Index(index, gen) == [index |-> index, generation |-> gen]

\* IndexList { contents, generation, next_free, head, tail }.  The vector
\* `contents` is its elements c and its allocated capacity cap.
IndexList(c, cap, g, nf, h, t) ==
    [contents |-> c, capacity |-> cap, generation |-> g, next_free |-> nf,
     head |-> h, tail |-> t]

\* IndexList::default() / IndexList::new(): Vec::new() allocates nothing.
new == IndexList(<<>>, 0, 0, None, None, None)

\* Faulty variant: fills the vector with `size` Free slots
with_capacity_fills(size) ==
    IndexList([p \in 1..size |-> Free(None)], size, 0, None, None, None)

\* IndexList::with_capacity(size): contents is Vec::with_capacity(size)
with_capacity(size) == IndexList(<<>>, size, 0, None, None, None)

\* ------------------------------------------------------------------ vector access
\* self.contents[p]  (only evaluated where InRange holds)
At(c, p) == c[p + 1]

\* p < self.contents.len(): where indexing does not panic
InRange(c, p) == p < Len(c)

\* self.contents.get(p)
Get(c, p) == IF InRange(c, p) THEN Some(At(c, p)) ELSE None

\* self.contents[p] = e
Set(c, p, e) == [c EXCEPT ![p + 1] = e]

\* `match &mut self.contents[o.unwrap()] { Free => panic!, Occupied(e) => e }`
\* succeeds: o is Some, the position is in range and the slot is Occupied.
IsOccupied(c, o) ==
    /\ o # None
    /\ InRange(c, Unwrap(o))
    /\ At(c, Unwrap(o)).tag = "Occupied"

\* The positions of the Occupied slots of the table c.
OccupiedSlots(c) == {p \in 0..(Len(c) - 1) : IsOccupied(c, Some(p))}

\* e.next = v / e.prev = v on the Occupied slot at p
SetNext(c, p, v) == Set(c, p, [At(c, p) EXCEPT !.next = v])
SetPrev(c, p, v) == Set(c, p, [At(c, p) EXCEPT !.prev = v])

\* self.contents.push(e): a full vector is reallocated first, to twice its
\* capacity and at least 4 elements (the amortized growth of Vec).
reserve_for_push(cap, len) ==
    IF len < cap THEN cap
    ELSE LET twice == IF 2 * cap > len + 1 THEN 2 * cap ELSE len + 1
         IN IF twice > 4 THEN twice ELSE 4

push(self, e) ==
    [self EXCEPT !.contents = Append(@, e),
                 !.capacity = reserve_for_push(@, Len(self.contents))]

\* The free list: the positions met by following next_free from o, until None
\* ("none"), an Occupied slot or a position outside the table ("panic"), or
\* for fuel steps ("more").
RECURSIVE WalkFree(_, _, _)
WalkFree(c, o, fuel) ==
    IF o = None THEN [at |-> <<>>, end |-> "none"]
    ELSE IF fuel = 0 THEN [at |-> <<>>, end |-> "more"]
    ELSE IF ~InRange(c, Unwrap(o)) THEN [at |-> <<>>, end |-> "panic"]
    ELSE IF At(c, Unwrap(o)).tag = "Occupied" THEN [at |-> <<>>, end |-> "panic"]
    ELSE LET rest == WalkFree(c, At(c, Unwrap(o)).next_free, fuel - 1) IN
         [at |-> <<Unwrap(o)>> \o rest.at, end |-> rest.end]

\* ------------------------------------------------------------------ outcomes
\* A call returns normally with a value, or panics.
Ok(self, ret) == [self |-> self, ret |-> ret, panic |-> FALSE]
Panic(self) == [self |-> self, ret |-> None, panic |-> TRUE]

\* ------------------------------------------------------------------ slot selection
\* `if let Some(position) = self.next_free { ... } else { push }`: the new
\* entry goes into the head of the free list if there is one, else it is
\* appended to the vector.
\* Faulty variant: always appends a new slot
place_grows(self, entry) ==
    [self |-> push(self, entry),
     position |-> Len(self.contents), panic |-> FALSE]

\* Faulty variant: leaves next_free at the slot it reuses
place_keeps_next_free(self, entry) ==
    IF self.next_free # None
    THEN LET position == Unwrap(self.next_free) IN
         IF ~InRange(self.contents, position)
            \/ At(self.contents, position).tag = "Occupied"
         THEN [self |-> self, position |-> position, panic |-> TRUE]
         ELSE [self |-> [self EXCEPT
                           !.contents = Set(self.contents, position, entry)],
               position |-> position, panic |-> FALSE]
    ELSE LET position == Len(self.contents) IN
         [self |-> push(self, entry),
          position |-> position, panic |-> FALSE]

\* Faulty variant: increments the generation when it reuses a slot
place_counts_reuse(self, entry) ==
    IF self.next_free # None
    THEN LET position == Unwrap(self.next_free) IN
         IF ~InRange(self.contents, position)
            \/ At(self.contents, position).tag = "Occupied"
         THEN [self |-> self, position |-> position, panic |-> TRUE]
         ELSE [self |-> [self EXCEPT
                           !.next_free = At(self.contents, position).next_free,
                           !.contents = Set(self.contents, position, entry),
                           !.generation = @ + 1],
               position |-> position, panic |-> FALSE]
    ELSE LET position == Len(self.contents) IN
         [self |-> push(self, entry),
          position |-> position, panic |-> FALSE]

place(self, entry) ==
    IF self.next_free # None
    THEN LET position == Unwrap(self.next_free) IN
         IF ~InRange(self.contents, position)
            \/ At(self.contents, position).tag = "Occupied"
         THEN [self |-> self, position |-> position, panic |-> TRUE]
         ELSE [self |-> [self EXCEPT
                           !.next_free = At(self.contents, position).next_free,
                           !.contents = Set(self.contents, position, entry)],
               position |-> position, panic |-> FALSE]
    ELSE LET position == Len(self.contents) IN
         [self |-> push(self, entry),
          position |-> position, panic |-> FALSE]

\* ------------------------------------------------------------------ push_back
\* Faulty variant: on a non-empty list, stamps the entry with the next generation
push_back_stamps_next(self, item) ==
    IF self.head = None
    THEN LET gen == self.generation
             r == place(self, Occupied(item, gen, None, None))
         IN IF r.panic THEN Panic(r.self)
            ELSE Ok([r.self EXCEPT !.tail = Some(r.position),
                                   !.head = Some(r.position)],
                    Index(r.position, gen))
    ELSE IF self.tail = None THEN Panic(self)
    ELSE LET tail_index == Unwrap(self.tail)
             r == place(self, Occupied(item, self.generation + 1, None, Some(tail_index)))
             new_index == Index(r.position, self.generation)
         IN IF r.panic THEN Panic(r.self)
            ELSE IF ~IsOccupied(r.self.contents, Some(tail_index)) THEN Panic(r.self)
            ELSE Ok([r.self EXCEPT
                       !.contents = SetNext(@, tail_index, Some(new_index.index)),
                       !.tail = Some(r.position)],
                    new_index)

\* Faulty variant: on an empty list, sets head and leaves tail at None
push_back_empty_forgets_tail(self, item) ==
    IF self.head = None
    THEN LET gen == self.generation
             r == place(self, Occupied(item, gen, None, None))
         IN IF r.panic THEN Panic(r.self)
            ELSE Ok([r.self EXCEPT !.head = Some(r.position)],
                    Index(r.position, gen))
    ELSE IF self.tail = None THEN Panic(self)
    ELSE LET tail_index == Unwrap(self.tail)
             r == place(self, Occupied(item, self.generation, None, Some(tail_index)))
             new_index == Index(r.position, self.generation)
         IN IF r.panic THEN Panic(r.self)
            ELSE IF ~IsOccupied(r.self.contents, Some(tail_index)) THEN Panic(r.self)
            ELSE Ok([r.self EXCEPT
                       !.contents = SetNext(@, tail_index, Some(new_index.index)),
                       !.tail = Some(r.position)],
                    new_index)

push_back(self, item) ==
    IF self.head = None
    THEN LET gen == self.generation
             r == place(self, Occupied(item, gen, None, None))
         IN IF r.panic THEN Panic(r.self)
            ELSE Ok([r.self EXCEPT !.tail = Some(r.position),
                                   !.head = Some(r.position)],
                    Index(r.position, gen))
    ELSE IF self.tail = None THEN Panic(self)
    ELSE LET tail_index == Unwrap(self.tail)
             r == place(self, Occupied(item, self.generation, None, Some(tail_index)))
             new_index == Index(r.position, self.generation)
         IN IF r.panic THEN Panic(r.self)
            ELSE IF ~IsOccupied(r.self.contents, Some(tail_index)) THEN Panic(r.self)
            ELSE Ok([r.self EXCEPT
                       !.contents = SetNext(@, tail_index, Some(new_index.index)),
                       !.tail = Some(r.position)],
                    new_index)

\* ------------------------------------------------------------------ push_front
\* Faulty variant: leaves self.head at the old head
push_front_keeps_head(self, item) ==
    IF self.head = None
    THEN push_back(self, item)
    ELSE LET head_index == Unwrap(self.head)
             r == place(self, Occupied(item, self.generation, Some(head_index), None))
             new_index == Index(r.position, self.generation)
         IN IF r.panic THEN Panic(r.self)
            ELSE IF ~IsOccupied(r.self.contents, Some(head_index)) THEN Panic(r.self)
            ELSE Ok([r.self EXCEPT
                       !.contents = SetPrev(@, head_index, Some(new_index.index))],
                    new_index)

\* Faulty variant: does not point the old head back at the new element
push_front_forgets_prev(self, item) ==
    IF self.head = None
    THEN push_back(self, item)
    ELSE LET head_index == Unwrap(self.head)
             r == place(self, Occupied(item, self.generation, Some(head_index), None))
             new_index == Index(r.position, self.generation)
         IN IF r.panic THEN Panic(r.self)
            ELSE IF ~IsOccupied(r.self.contents, Some(head_index)) THEN Panic(r.self)
            ELSE Ok([r.self EXCEPT !.head = Some(r.position)], new_index)

\* Faulty variant: on a non-empty list, appends a slot and leaves the free list alone
push_front_grows(self, item) ==
    IF self.head = None
    THEN push_back(self, item)
    ELSE LET head_index == Unwrap(self.head)
             position == Len(self.contents)
             s1 == push(self, Occupied(item, self.generation, Some(head_index), None))
             new_index == Index(position, self.generation)
         IN IF ~IsOccupied(s1.contents, Some(head_index)) THEN Panic(s1)
            ELSE Ok([s1 EXCEPT
                       !.contents = SetPrev(@, head_index, Some(new_index.index)),
                       !.head = Some(position)],
                    new_index)

push_front(self, item) ==
    IF self.head = None
    THEN push_back(self, item)
    ELSE LET head_index == Unwrap(self.head)
             r == place(self, Occupied(item, self.generation, Some(head_index), None))
             new_index == Index(r.position, self.generation)
         IN IF r.panic THEN Panic(r.self)
            ELSE IF ~IsOccupied(r.self.contents, Some(head_index)) THEN Panic(r.self)
            ELSE Ok([r.self EXCEPT
                       !.contents = SetPrev(@, head_index, Some(new_index.index)),
                       !.head = Some(r.position)],
                    new_index)

\* ------------------------------------------------------------------ get
\* Faulty variant: accepts a handle of any generation
get_any_generation(self, index) ==
    LET got == Get(self.contents, index.index) IN
    IF got = None THEN None
    ELSE IF Unwrap(got).tag = "Occupied" THEN Some(Unwrap(got).item)
    ELSE None

\* Faulty variant: compares the handle with the container's counter, not the slot's
get_list_generation(self, index) ==
    LET got == Get(self.contents, index.index) IN
    IF got = None THEN None
    ELSE IF Unwrap(got).tag = "Occupied"
            /\ self.generation = index.generation
         THEN Some(Unwrap(got).item)
    ELSE None

get(self, index) ==
    LET got == Get(self.contents, index.index) IN
    IF got = None THEN None
    ELSE IF Unwrap(got).tag = "Occupied"
            /\ Unwrap(got).generation = index.generation
         THEN Some(Unwrap(got).item)
    ELSE None

\* ------------------------------------------------------------------ get_mut
\* `match &mut self.contents[index.index] { .. }`: the vector is indexed, not
\* asked with get, so a position outside it panics.
get_mut(self, index) ==
    IF ~InRange(self.contents, index.index) THEN Panic(self)
    ELSE LET e == At(self.contents, index.index) IN
         IF e.tag = "Occupied" /\ e.generation = index.generation
         THEN Ok(self, Some(e.item))
         ELSE Ok(self, None)

\* ------------------------------------------------------------------ next_index / prev_index
\* Faulty variant: stamps the neighbour's handle with the generation of the
\* handle it was given
next_index_input_generation(self, index) ==
    LET got == Get(self.contents, index.index) IN
    IF got = None THEN Ok(self, None)
    ELSE IF Unwrap(got).tag = "Occupied"
            /\ Unwrap(got).generation = index.generation
         THEN LET n == Unwrap(got).next IN
              IF n = None THEN Ok(self, None)
              ELSE IF Get(self.contents, Unwrap(n)) = None THEN Ok(self, None)
              ELSE IF At(self.contents, Unwrap(n)).tag = "Occupied"
                   THEN Ok(self, Some(Index(Unwrap(n), index.generation)))
              ELSE Panic(self)
    ELSE Ok(self, None)

next_index(self, index) ==
    LET got == Get(self.contents, index.index) IN
    IF got = None THEN Ok(self, None)
    ELSE IF Unwrap(got).tag = "Occupied"
            /\ Unwrap(got).generation = index.generation
         THEN LET n == Unwrap(got).next IN
              IF n = None THEN Ok(self, None)
              ELSE IF Get(self.contents, Unwrap(n)) = None THEN Ok(self, None)
              ELSE IF At(self.contents, Unwrap(n)).tag = "Occupied"
                   THEN Ok(self, Some(Index(Unwrap(n),
                                            At(self.contents, Unwrap(n)).generation)))
              ELSE Panic(self)
    ELSE Ok(self, None)

\* Faulty variant: stamps the neighbour's handle with the list's generation
prev_index_list_generation(self, index) ==
    LET got == Get(self.contents, index.index) IN
    IF got = None THEN Ok(self, None)
    ELSE IF Unwrap(got).tag = "Occupied"
            /\ Unwrap(got).generation = index.generation
         THEN LET p == Unwrap(got).prev IN
              IF p = None THEN Ok(self, None)
              ELSE IF Get(self.contents, Unwrap(p)) = None THEN Ok(self, None)
              ELSE IF At(self.contents, Unwrap(p)).tag = "Occupied"
                   THEN Ok(self, Some(Index(Unwrap(p), self.generation)))
              ELSE Panic(self)
    ELSE Ok(self, None)

prev_index(self, index) ==
    LET got == Get(self.contents, index.index) IN
    IF got = None THEN Ok(self, None)
    ELSE IF Unwrap(got).tag = "Occupied"
            /\ Unwrap(got).generation = index.generation
         THEN LET p == Unwrap(got).prev IN
              IF p = None THEN Ok(self, None)
              ELSE IF Get(self.contents, Unwrap(p)) = None THEN Ok(self, None)
              ELSE IF At(self.contents, Unwrap(p)).tag = "Occupied"
                   THEN Ok(self, Some(Index(Unwrap(p),
                                            At(self.contents, Unwrap(p)).generation)))
              ELSE Panic(self)
    ELSE Ok(self, None)

\* ------------------------------------------------------------------ handle validation
\* `match self.contents.get(index.index)? { Free => return None,
\*    Occupied(e) => { if index.generation != e.generation { return None; }
\*                     (e.prev, index.index, e.next) } }`
\* None stands for the early `return None`.
\* Faulty variant: skips the generation test
resolve_any_generation(self, index) ==
    LET got == Get(self.contents, index.index) IN
    IF got = None THEN None
    ELSE IF Unwrap(got).tag = "Free" THEN None
    ELSE Some([prev |-> Unwrap(got).prev, index |-> index.index,
               next |-> Unwrap(got).next])

resolve(self, index) ==
    LET got == Get(self.contents, index.index) IN
    IF got = None THEN None
    ELSE IF Unwrap(got).tag = "Free" THEN None
    ELSE IF index.generation # Unwrap(got).generation THEN None
    ELSE Some([prev |-> Unwrap(got).prev, index |-> index.index,
               next |-> Unwrap(got).next])

\* ------------------------------------------------------------------ removal
\* mem::replace(&mut self.contents[index], Free { next_free: self.next_free });
\* self.next_free = Some(index); self.generation += 1;
\* Faulty variant: the freed slot does not link to the rest of the free list
detach_drops_chain(self, index) ==
    [self EXCEPT !.contents = Set(@, index, Free(None)),
                 !.next_free = Some(index),
                 !.generation = @ + 1]

\* Faulty variant: puts the freed slot at the end of the free list
detach_appends(self, index) ==
    LET fr == WalkFree(self.contents, self.next_free, Len(self.contents) + 1).at
        c1 == Set(self.contents, index, Free(None))
    IN IF fr = <<>>
       THEN [self EXCEPT !.contents = c1,
                         !.next_free = Some(index),
                         !.generation = @ + 1]
       ELSE [self EXCEPT !.contents = Set(c1, fr[Len(fr)], Free(Some(index))),
                         !.generation = @ + 1]

\* Faulty variant: drops the slot from the vector when it is the last one
detach_truncates(self, index) ==
    IF index + 1 = Len(self.contents)
    THEN [self EXCEPT !.contents = SubSeq(@, 1, index),
                      !.generation = @ + 1]
    ELSE [self EXCEPT !.contents = Set(@, index, Free(self.next_free)),
                      !.next_free = Some(index),
                      !.generation = @ + 1]

\* Faulty variant: does not increment the generation
detach_keeps_generation(self, index) ==
    [self EXCEPT !.contents = Set(@, index, Free(self.next_free)),
                 !.next_free = Some(index)]

detach(self, index) ==
    [self EXCEPT !.contents = Set(@, index, Free(self.next_free)),
                 !.next_free = Some(index),
                 !.generation = @ + 1]

\* Faulty variant: in the interior case, leaves prev.next at the removed slot
relink_interior_forgets_prev(self, index, head_index, tail_index, prev_idx, next_idx) ==
    IF (index = head_index) /\ (index = tail_index)
    THEN [self |-> [self EXCEPT !.head = None, !.tail = None], panic |-> FALSE]
    ELSE IF index = head_index
    THEN IF ~IsOccupied(self.contents, next_idx) THEN [self |-> self, panic |-> TRUE]
         ELSE [self |-> [self EXCEPT
                          !.contents = SetPrev(@, Unwrap(next_idx), None),
                          !.head = next_idx],
               panic |-> FALSE]
    ELSE IF index = tail_index
    THEN IF ~IsOccupied(self.contents, prev_idx) THEN [self |-> self, panic |-> TRUE]
         ELSE [self |-> [self EXCEPT
                          !.contents = SetNext(@, Unwrap(prev_idx), None),
                          !.tail = prev_idx],
               panic |-> FALSE]
    ELSE IF ~IsOccupied(self.contents, next_idx) THEN [self |-> self, panic |-> TRUE]
         ELSE [self |-> [self EXCEPT
                          !.contents = SetPrev(@, Unwrap(next_idx), prev_idx)],
               panic |-> FALSE]

\* Faulty variant: in the tail case, leaves self.tail at the removed slot
relink_tail_keeps_tail(self, index, head_index, tail_index, prev_idx, next_idx) ==
    IF (index = head_index) /\ (index = tail_index)
    THEN [self |-> [self EXCEPT !.head = None, !.tail = None], panic |-> FALSE]
    ELSE IF index = head_index
    THEN IF ~IsOccupied(self.contents, next_idx) THEN [self |-> self, panic |-> TRUE]
         ELSE [self |-> [self EXCEPT
                          !.contents = SetPrev(@, Unwrap(next_idx), None),
                          !.head = next_idx],
               panic |-> FALSE]
    ELSE IF index = tail_index
    THEN IF ~IsOccupied(self.contents, prev_idx) THEN [self |-> self, panic |-> TRUE]
         ELSE [self |-> [self EXCEPT
                          !.contents = SetNext(@, Unwrap(prev_idx), None)],
               panic |-> FALSE]
    ELSE IF ~IsOccupied(self.contents, next_idx) THEN [self |-> self, panic |-> TRUE]
         ELSE LET c1 == SetPrev(self.contents, Unwrap(next_idx), prev_idx) IN
              IF ~IsOccupied(c1, prev_idx)
              THEN [self |-> [self EXCEPT !.contents = c1], panic |-> TRUE]
              ELSE [self |-> [self EXCEPT
                               !.contents = SetNext(c1, Unwrap(prev_idx), next_idx)],
                    panic |-> FALSE]

\* Faulty variant: in the head case, leaves the new head's prev at the removed slot
relink_head_keeps_prev(self, index, head_index, tail_index, prev_idx, next_idx) ==
    IF (index = head_index) /\ (index = tail_index)
    THEN [self |-> [self EXCEPT !.head = None, !.tail = None], panic |-> FALSE]
    ELSE IF index = head_index
    THEN IF ~IsOccupied(self.contents, next_idx) THEN [self |-> self, panic |-> TRUE]
         ELSE [self |-> [self EXCEPT !.head = next_idx], panic |-> FALSE]
    ELSE IF index = tail_index
    THEN IF ~IsOccupied(self.contents, prev_idx) THEN [self |-> self, panic |-> TRUE]
         ELSE [self |-> [self EXCEPT
                          !.contents = SetNext(@, Unwrap(prev_idx), None),
                          !.tail = prev_idx],
               panic |-> FALSE]
    ELSE IF ~IsOccupied(self.contents, next_idx) THEN [self |-> self, panic |-> TRUE]
         ELSE LET c1 == SetPrev(self.contents, Unwrap(next_idx), prev_idx) IN
              IF ~IsOccupied(c1, prev_idx)
              THEN [self |-> [self EXCEPT !.contents = c1], panic |-> TRUE]
              ELSE [self |-> [self EXCEPT
                               !.contents = SetNext(c1, Unwrap(prev_idx), next_idx)],
                    panic |-> FALSE]

\* The four cases of remove's link repair.
relink(self, index, head_index, tail_index, prev_idx, next_idx) ==
    IF (index = head_index) /\ (index = tail_index)
    THEN [self |-> [self EXCEPT !.head = None, !.tail = None], panic |-> FALSE]
    ELSE IF index = head_index
    THEN IF ~IsOccupied(self.contents, next_idx) THEN [self |-> self, panic |-> TRUE]
         ELSE [self |-> [self EXCEPT
                          !.contents = SetPrev(@, Unwrap(next_idx), None),
                          !.head = next_idx],
               panic |-> FALSE]
    ELSE IF index = tail_index
    THEN IF ~IsOccupied(self.contents, prev_idx) THEN [self |-> self, panic |-> TRUE]
         ELSE [self |-> [self EXCEPT
                          !.contents = SetNext(@, Unwrap(prev_idx), None),
                          !.tail = prev_idx],
               panic |-> FALSE]
    ELSE IF ~IsOccupied(self.contents, next_idx) THEN [self |-> self, panic |-> TRUE]
         ELSE LET c1 == SetPrev(self.contents, Unwrap(next_idx), prev_idx) IN
              IF ~IsOccupied(c1, prev_idx)
              THEN [self |-> [self EXCEPT !.contents = c1], panic |-> TRUE]
              ELSE [self |-> [self EXCEPT
                               !.contents = SetNext(c1, Unwrap(prev_idx), next_idx)],
                    panic |-> FALSE]

\* Faulty variant: increments the generation before the handle is validated
remove_counts_every_call(self, index) ==
    IF self.head = None THEN Ok(self, None)
    ELSE IF self.tail = None THEN Ok(self, None)
    ELSE LET head_index == Unwrap(self.head)
             tail_index == Unwrap(self.tail)
             t == resolve(self, index)
         IN IF t = None THEN Ok([self EXCEPT !.generation = @ + 1], None)
            ELSE LET removed_entry == At(self.contents, Unwrap(t).index)
                     s1 == detach(self, Unwrap(t).index)
                     s2 == relink(s1, Unwrap(t).index, head_index, tail_index,
                                  Unwrap(t).prev, Unwrap(t).next)
                 IN IF s2.panic THEN Panic(s2.self)
                    ELSE IF removed_entry.tag = "Free" THEN Panic(s2.self)
                    ELSE Ok(s2.self, Some(removed_entry.item))

remove(self, index) ==
    IF self.head = None THEN Ok(self, None)
    ELSE IF self.tail = None THEN Ok(self, None)
    ELSE LET head_index == Unwrap(self.head)
             tail_index == Unwrap(self.tail)
             t == resolve(self, index)
         IN IF t = None THEN Ok(self, None)
            ELSE LET removed_entry == At(self.contents, Unwrap(t).index)
                     s1 == detach(self, Unwrap(t).index)
                     s2 == relink(s1, Unwrap(t).index, head_index, tail_index,
                                  Unwrap(t).prev, Unwrap(t).next)
                 IN IF s2.panic THEN Panic(s2.self)
                    ELSE IF removed_entry.tag = "Free" THEN Panic(s2.self)
                    ELSE Ok(s2.self, Some(removed_entry.item))

\* ------------------------------------------------------------------ pop_front
\* Faulty variant: leaves self.head at the removed slot
pop_front_keeps_head(self) ==
    IF self.head = None THEN Ok(self, None)
    ELSE LET head_index == Unwrap(self.head)
             got == Get(self.contents, head_index)
         IN IF got = None THEN Ok(self, None)
            ELSE IF Unwrap(got).tag = "Free" THEN Ok(self, None)
            ELSE LET next_idx == Unwrap(got).next
                     s1 == detach(self, head_index)
                 IN IF Some(head_index) = s1.tail
                    THEN Ok([s1 EXCEPT !.head = None, !.tail = None],
                            Some(Unwrap(got).item))
                    ELSE IF ~IsOccupied(s1.contents, next_idx) THEN Panic(s1)
                    ELSE Ok([s1 EXCEPT
                               !.contents = SetPrev(@, Unwrap(next_idx), None)],
                            Some(Unwrap(got).item))

\* Faulty variant: when the list had one element, leaves self.tail at its slot
pop_front_sole_keeps_tail(self) ==
    IF self.head = None THEN Ok(self, None)
    ELSE LET head_index == Unwrap(self.head)
             got == Get(self.contents, head_index)
         IN IF got = None THEN Ok(self, None)
            ELSE IF Unwrap(got).tag = "Free" THEN Ok(self, None)
            ELSE LET next_idx == Unwrap(got).next
                     s1 == detach(self, head_index)
                 IN IF Some(head_index) = s1.tail
                    THEN Ok([s1 EXCEPT !.head = None], Some(Unwrap(got).item))
                    ELSE IF ~IsOccupied(s1.contents, next_idx) THEN Panic(s1)
                    ELSE Ok([s1 EXCEPT
                               !.contents = SetPrev(@, Unwrap(next_idx), None),
                               !.head = next_idx],
                            Some(Unwrap(got).item))

\* Faulty variant: does not increment the generation
pop_front_keeps_generation(self) ==
    IF self.head = None THEN Ok(self, None)
    ELSE LET head_index == Unwrap(self.head)
             got == Get(self.contents, head_index)
         IN IF got = None THEN Ok(self, None)
            ELSE IF Unwrap(got).tag = "Free" THEN Ok(self, None)
            ELSE LET next_idx == Unwrap(got).next
                     s1 == [self EXCEPT
                              !.contents = Set(@, head_index, Free(self.next_free)),
                              !.next_free = Some(head_index)]
                 IN IF Some(head_index) = s1.tail
                    THEN Ok([s1 EXCEPT !.head = None, !.tail = None],
                            Some(Unwrap(got).item))
                    ELSE IF ~IsOccupied(s1.contents, next_idx) THEN Panic(s1)
                    ELSE Ok([s1 EXCEPT
                               !.contents = SetPrev(@, Unwrap(next_idx), None),
                               !.head = next_idx],
                            Some(Unwrap(got).item))

pop_front(self) ==
    IF self.head = None THEN Ok(self, None)
    ELSE LET head_index == Unwrap(self.head)
             got == Get(self.contents, head_index)
         IN IF got = None THEN Ok(self, None)
            ELSE IF Unwrap(got).tag = "Free" THEN Ok(self, None)
            ELSE LET next_idx == Unwrap(got).next
                     s1 == detach(self, head_index)
                 IN IF Some(head_index) = s1.tail
                    THEN Ok([s1 EXCEPT !.head = None, !.tail = None],
                            Some(Unwrap(got).item))
                    ELSE IF ~IsOccupied(s1.contents, next_idx) THEN Panic(s1)
                    ELSE Ok([s1 EXCEPT
                               !.contents = SetPrev(@, Unwrap(next_idx), None),
                               !.head = next_idx],
                            Some(Unwrap(got).item))

\* ------------------------------------------------------------------ insert_before / insert_after
\* Faulty variant: leaves self.head alone when the target was the head
insert_before_keeps_head(self, index, item) ==
    LET t == resolve(self, index) IN
    IF t = None THEN Ok(self, None)
    ELSE LET prev_idx == Unwrap(t).prev
             idx == Unwrap(t).index
             r == place(self, Occupied(item, self.generation, Some(idx), prev_idx))
         IN IF r.panic THEN Panic(r.self)
            ELSE IF ~IsOccupied(r.self.contents, Some(idx)) THEN Panic(r.self)
            ELSE LET c1 == SetPrev(r.self.contents, idx, Some(r.position)) IN
                 IF prev_idx # None
                 THEN IF ~IsOccupied(c1, prev_idx)
                      THEN Panic([r.self EXCEPT !.contents = c1])
                      ELSE Ok([r.self EXCEPT
                                 !.contents = SetNext(c1, Unwrap(prev_idx),
                                                      Some(r.position))],
                              Some(Index(r.position, self.generation)))
                 ELSE Ok([r.self EXCEPT !.contents = c1],
                         Some(Index(r.position, self.generation)))

\* Faulty variant: writes the new element's next and prev the wrong way round
insert_before_swaps_links(self, index, item) ==
    LET t == resolve(self, index) IN
    IF t = None THEN Ok(self, None)
    ELSE LET prev_idx == Unwrap(t).prev
             idx == Unwrap(t).index
             r == place(self, Occupied(item, self.generation, prev_idx, Some(idx)))
         IN IF r.panic THEN Panic(r.self)
            ELSE IF ~IsOccupied(r.self.contents, Some(idx)) THEN Panic(r.self)
            ELSE LET c1 == SetPrev(r.self.contents, idx, Some(r.position)) IN
                 IF prev_idx # None
                 THEN IF ~IsOccupied(c1, prev_idx)
                      THEN Panic([r.self EXCEPT !.contents = c1])
                      ELSE Ok([r.self EXCEPT
                                 !.contents = SetNext(c1, Unwrap(prev_idx),
                                                      Some(r.position))],
                              Some(Index(r.position, self.generation)))
                 ELSE Ok([r.self EXCEPT !.contents = c1,
                                        !.head = Some(r.position)],
                         Some(Index(r.position, self.generation)))

insert_before(self, index, item) ==
    LET t == resolve(self, index) IN
    IF t = None THEN Ok(self, None)
    ELSE LET prev_idx == Unwrap(t).prev
             idx == Unwrap(t).index
             r == place(self, Occupied(item, self.generation, Some(idx), prev_idx))
         IN IF r.panic THEN Panic(r.self)
            ELSE IF ~IsOccupied(r.self.contents, Some(idx)) THEN Panic(r.self)
            ELSE LET c1 == SetPrev(r.self.contents, idx, Some(r.position)) IN
                 IF prev_idx # None
                 THEN IF ~IsOccupied(c1, prev_idx)
                      THEN Panic([r.self EXCEPT !.contents = c1])
                      ELSE Ok([r.self EXCEPT
                                 !.contents = SetNext(c1, Unwrap(prev_idx),
                                                      Some(r.position))],
                              Some(Index(r.position, self.generation)))
                 ELSE Ok([r.self EXCEPT !.contents = c1,
                                        !.head = Some(r.position)],
                         Some(Index(r.position, self.generation)))

\* Faulty variant: does not point the old successor back at the new element
insert_after_forgets_next_prev(self, index, item) ==
    LET t == resolve(self, index) IN
    IF t = None THEN Ok(self, None)
    ELSE LET next_idx == Unwrap(t).next
             idx == Unwrap(t).index
             r == place(self, Occupied(item, self.generation, next_idx, Some(idx)))
         IN IF r.panic THEN Panic(r.self)
            ELSE IF ~IsOccupied(r.self.contents, Some(idx)) THEN Panic(r.self)
            ELSE LET c1 == SetNext(r.self.contents, idx, Some(r.position)) IN
                 IF next_idx # None
                 THEN Ok([r.self EXCEPT !.contents = c1],
                         Some(Index(r.position, self.generation)))
                 ELSE Ok([r.self EXCEPT !.contents = c1,
                                        !.tail = Some(r.position)],
                         Some(Index(r.position, self.generation)))

\* Faulty variant: stamps the new element with the generation of the target
insert_after_target_generation(self, index, item) ==
    LET t == resolve(self, index) IN
    IF t = None THEN Ok(self, None)
    ELSE LET next_idx == Unwrap(t).next
             idx == Unwrap(t).index
             gen == At(self.contents, idx).generation
             r == place(self, Occupied(item, gen, next_idx, Some(idx)))
         IN IF r.panic THEN Panic(r.self)
            ELSE IF ~IsOccupied(r.self.contents, Some(idx)) THEN Panic(r.self)
            ELSE LET c1 == SetNext(r.self.contents, idx, Some(r.position)) IN
                 IF next_idx # None
                 THEN IF ~IsOccupied(c1, next_idx)
                      THEN Panic([r.self EXCEPT !.contents = c1])
                      ELSE Ok([r.self EXCEPT
                                 !.contents = SetPrev(c1, Unwrap(next_idx),
                                                      Some(r.position))],
                              Some(Index(r.position, gen)))
                 ELSE Ok([r.self EXCEPT !.contents = c1,
                                        !.tail = Some(r.position)],
                         Some(Index(r.position, gen)))

\* Faulty variant: leaves self.tail alone when the target was the tail
insert_after_keeps_tail(self, index, item) ==
    LET t == resolve(self, index) IN
    IF t = None THEN Ok(self, None)
    ELSE LET next_idx == Unwrap(t).next
             idx == Unwrap(t).index
             r == place(self, Occupied(item, self.generation, next_idx, Some(idx)))
         IN IF r.panic THEN Panic(r.self)
            ELSE IF ~IsOccupied(r.self.contents, Some(idx)) THEN Panic(r.self)
            ELSE LET c1 == SetNext(r.self.contents, idx, Some(r.position)) IN
                 IF next_idx # None
                 THEN IF ~IsOccupied(c1, next_idx)
                      THEN Panic([r.self EXCEPT !.contents = c1])
                      ELSE Ok([r.self EXCEPT
                                 !.contents = SetPrev(c1, Unwrap(next_idx),
                                                      Some(r.position))],
                              Some(Index(r.position, self.generation)))
                 ELSE Ok([r.self EXCEPT !.contents = c1],
                         Some(Index(r.position, self.generation)))

insert_after(self, index, item) ==
    LET t == resolve(self, index) IN
    IF t = None THEN Ok(self, None)
    ELSE LET next_idx == Unwrap(t).next
             idx == Unwrap(t).index
             r == place(self, Occupied(item, self.generation, next_idx, Some(idx)))
         IN IF r.panic THEN Panic(r.self)
            ELSE IF ~IsOccupied(r.self.contents, Some(idx)) THEN Panic(r.self)
            ELSE LET c1 == SetNext(r.self.contents, idx, Some(r.position)) IN
                 IF next_idx # None
                 THEN IF ~IsOccupied(c1, next_idx)
                      THEN Panic([r.self EXCEPT !.contents = c1])
                      ELSE Ok([r.self EXCEPT
                                 !.contents = SetPrev(c1, Unwrap(next_idx),
                                                      Some(r.position))],
                              Some(Index(r.position, self.generation)))
                 ELSE Ok([r.self EXCEPT !.contents = c1,
                                        !.tail = Some(r.position)],
                         Some(Index(r.position, self.generation)))

\* ------------------------------------------------------------------ iteration
\* Iter::next called until it returns None, from next_index = o: the positions
\* visited (at), the items yielded (items) and how the walk ended: "none" (the
\* iterator returned None), "panic" (a Free slot or a position outside the
\* vector), or "more" after `fuel` steps (the walk has not ended: a chain
\* longer than the table, which only a cycle produces).
RECURSIVE IterNext(_, _, _)
IterNext(c, o, fuel) ==
    IF o = None THEN [at |-> <<>>, items |-> <<>>, end |-> "none"]
    ELSE IF fuel = 0 THEN [at |-> <<>>, items |-> <<>>, end |-> "more"]
    ELSE IF ~IsOccupied(c, o) THEN [at |-> <<>>, items |-> <<>>, end |-> "panic"]
    ELSE LET e == At(c, Unwrap(o))
             rest == IterNext(c, e.next, fuel - 1)
         IN [at |-> <<Unwrap(o)>> \o rest.at,
             items |-> <<e.item>> \o rest.items,
             end |-> rest.end]

\* self.iter() collected: Iter { list: self, next_index: self.head }
iter(self) == IterNext(self.contents, self.head, Len(self.contents) + 1)

\* ------------------------------------------------------------------ into_iter
\* IntoIter::next from next_index = o, collected: each visited slot is taken
\* out with mem::replace(&mut self.list.contents[next_index], Free { next_free:
\* None }); a position outside the vector and a Free slot panic.
RECURSIVE IntoIterNext(_, _, _)
IntoIterNext(c, o, fuel) ==
    IF o = None THEN [items |-> <<>>, end |-> "none"]
    ELSE IF fuel = 0 THEN [items |-> <<>>, end |-> "more"]
    ELSE IF ~InRange(c, Unwrap(o)) THEN [items |-> <<>>, end |-> "panic"]
    ELSE LET entry == At(c, Unwrap(o))
             taken == Set(c, Unwrap(o), Free(None))
         IN IF entry.tag = "Free" THEN [items |-> <<>>, end |-> "panic"]
            ELSE LET rest == IntoIterNext(taken, entry.next, fuel - 1) IN
                 [items |-> <<entry.item>> \o rest.items, end |-> rest.end]

\* Faulty variant: yields the items of the Occupied slots in slot order
into_iter_slot_order(self) ==
    LET occ == {p \in 0..(Len(self.contents) - 1) :
                  IsOccupied(self.contents, Some(p))}
        nth(i) == CHOOSE p \in occ : Cardinality({q \in occ : q < p}) = i - 1
    IN [items |-> [i \in 1..Cardinality(occ) |-> At(self.contents, nth(i)).item],
        end |-> "none"]

\* self.into_iter() collected: IntoIter { list: self, next_index: self.head }
into_iter(self) == IntoIterNext(self.contents, self.head, Len(self.contents) + 1)

\* ------------------------------------------------------------------ index_of
\* The `while let Some(index) = next` loop of index_of from next = o.  `end`
\* tells how it ended: "found" (return Some), "none" (the loop ran out and
\* None is returned), "panic" (a Free slot, or a position outside the
\* vector), "more" (still looping after `fuel` rounds).
RECURSIVE index_of_loop(_, _, _, _)
index_of_loop(c, o, item, fuel) ==
    IF o = None THEN [ret |-> None, end |-> "none"]
    ELSE IF fuel = 0 THEN [ret |-> None, end |-> "more"]
    ELSE IF ~IsOccupied(c, o) THEN [ret |-> None, end |-> "panic"]
    ELSE LET entry == At(c, Unwrap(o)) IN
         IF entry.item = item
         THEN [ret |-> Some(Index(Unwrap(o), entry.generation)), end |-> "found"]
         ELSE index_of_loop(c, entry.next, item, fuel - 1)

\* Faulty variant: looks through the slots in position order
index_of_slot_order(self, item) ==
    LET hits == {p \in 0..(Len(self.contents) - 1) :
                   /\ IsOccupied(self.contents, Some(p))
                   /\ At(self.contents, p).item = item}
    IN IF hits = {} THEN [ret |-> None, end |-> "none"]
       ELSE LET p == CHOOSE x \in hits : \A y \in hits : x <= y IN
            [ret |-> Some(Index(p, At(self.contents, p).generation)),
             end |-> "found"]

index_of(self, item) ==
    index_of_loop(self.contents, self.head, item, Len(self.contents) + 1)

\* ------------------------------------------------------------------ contains
\* Iterator::any(|e| e == value) over Iter: Iter::next is called until an
\* item equals value ("found", true) or it returns None ("none", false).
RECURSIVE any_equal(_, _, _, _)
any_equal(c, o, value, fuel) ==
    IF o = None THEN [ret |-> FALSE, end |-> "none"]
    ELSE IF fuel = 0 THEN [ret |-> FALSE, end |-> "more"]
    ELSE IF ~IsOccupied(c, o) THEN [ret |-> FALSE, end |-> "panic"]
    ELSE IF At(c, Unwrap(o)).item = value THEN [ret |-> TRUE, end |-> "found"]
    ELSE any_equal(c, At(c, Unwrap(o)).next, value, fuel - 1)

\* Faulty variant: starts the scan at the tail
contains_from_tail(self, value) ==
    any_equal(self.contents, self.tail, value, Len(self.contents) + 1)

contains(self, value) ==
    any_equal(self.contents, self.head, value, Len(self.contents) + 1)

\* ------------------------------------------------------------------ head / tail accessors
\* head(): `let index = self.head?; self.contents.get(index).and_then(..)`,
\* None on a Free slot.  (Named head_value: head is the field.)
head_value(self) ==
    IF self.head = None THEN None
    ELSE LET got == Get(self.contents, Unwrap(self.head)) IN
         IF got = None THEN None
         ELSE IF Unwrap(got).tag = "Free" THEN None
         ELSE Some(Unwrap(got).item)

\* head_mut(): `match &mut self.contents[index]`, which indexes the vector.
head_mut(self) ==
    IF self.head = None THEN Ok(self, None)
    ELSE IF ~InRange(self.contents, Unwrap(self.head)) THEN Panic(self)
    ELSE LET e == At(self.contents, Unwrap(self.head)) IN
         IF e.tag = "Free" THEN Ok(self, None)
         ELSE Ok(self, Some(e.item))

head_index(self) ==
    IF self.head = None THEN None
    ELSE LET got == Get(self.contents, Unwrap(self.head)) IN
         IF got = None THEN None
         ELSE IF Unwrap(got).tag = "Free" THEN None
         ELSE Some(Index(Unwrap(self.head), Unwrap(got).generation))

\* Faulty variant: reads self.head
tail_index_reads_head(self) ==
    IF self.head = None THEN None
    ELSE LET got == Get(self.contents, Unwrap(self.head)) IN
         IF got = None THEN None
         ELSE IF Unwrap(got).tag = "Free" THEN None
         ELSE Some(Index(Unwrap(self.head), Unwrap(got).generation))

tail_index(self) ==
    IF self.tail = None THEN None
    ELSE LET got == Get(self.contents, Unwrap(self.tail)) IN
         IF got = None THEN None
         ELSE IF Unwrap(got).tag = "Free" THEN None
         ELSE Some(Index(Unwrap(self.tail), Unwrap(got).generation))

\* ------------------------------------------------------------------ equality
\* #[derive(PartialEq)] on Entry and OccupiedEntry: same variant, equal fields.
entry_eq(a, b) ==
    /\ a.tag = b.tag
    /\ IF a.tag = "Free" THEN a.next_free = b.next_free
       ELSE /\ a.item = b.item
            /\ a.generation = b.generation
            /\ a.next = b.next
            /\ a.prev = b.prev

\* Faulty variant: compares the items the two lists yield
eq_by_items(a, b) == iter(a).items = iter(b).items

\* #[derive(PartialEq)] on IndexList: field by field; two vectors are equal
\* when they have the same length and equal elements (not capacity).
eq(a, b) ==
    /\ Len(a.contents) = Len(b.contents)
    /\ \A i \in 1..Len(a.contents) : entry_eq(a.contents[i], b.contents[i])
    /\ a.generation = b.generation
    /\ a.next_free = b.next_free
    /\ a.head = b.head
    /\ a.tail = b.tail

\* ------------------------------------------------------------------ state
VARIABLES
    contents,    \* IndexList.contents: the slot table
    generation,  \* IndexList.generation
    next_free,   \* IndexList.next_free: head of the free list
    head,        \* IndexList.head
    tail,        \* IndexList.tail
    panicked,    \* a call has panicked: the program has halted
    last,        \* the last call: its name, handle and item arguments, result
    issued,      \* history: every handle an insertion has returned
    removed,     \* history: the handle of every element a removal has taken out
    freed,       \* history: the positions removals have freed and no
                 \* insertion has taken since, the latest first
    only,        \* history: the kind of calls made so far (see Kind)
    pushed,      \* history: items pushed so far, while `only` is not "mixed";
                 \* in "drain", the pushed items not yet popped
    capacity,    \* the allocated capacity of the vector IndexList.contents
    peak,        \* history: the largest number of elements the list has held
                 \* at one time
    other        \* a second list, as the outcome of the last call made on it

list_vars == <<contents, generation, next_free, head, tail>>
vars == <<contents, generation, next_free, head, tail, panicked, last,
          issued, removed, freed, only, pushed, capacity, peak, other>>

\* The container as a value.
Self == IndexList(contents, capacity, generation, next_free, head, tail)

\* The handles a client may pass.  Index has private fields and a private
\* constructor, so a client holds only handles that an insertion returned:
\* those of this list (valid or stale), or one of another list, here the
\* handle of a position just outside this list's table.
Handles == issued \cup {Index(Len(contents), 0)}

\* The record of a call: `role` is the case of remove's link repair that ran.
Call(op, index, item, ret, role) ==
    [op |-> op, index |-> index, item |-> item, ret |-> ret, role |-> role]

\* remove's case split on the target: "sole" (head and tail), "head", "tail",
\* "middle"; "none" when remove returns early.
remove_case(self, index) ==
    IF self.head = None \/ self.tail = None \/ resolve(self, index) = None THEN "none"
    ELSE IF index.index = Unwrap(self.head) /\ index.index = Unwrap(self.tail) THEN "sole"
    ELSE IF index.index = Unwrap(self.head) THEN "head"
    ELSE IF index.index = Unwrap(self.tail) THEN "tail"
    ELSE "middle"

\* let mut list = IndexList::new();
ListInit ==
    /\ contents = new.contents
    /\ generation = new.generation
    /\ next_free = new.next_free
    /\ head = new.head
    /\ tail = new.tail
    /\ panicked = FALSE
    /\ last = Call("new", None, None, None, "none")
    /\ issued = {}
    /\ removed = {}
    /\ freed = <<>>
    /\ only = "new"
    /\ pushed = <<>>
    /\ capacity = new.capacity
    /\ peak = 0

Init == ListInit /\ other = Ok(new, None)

\* The container after a call with outcome r.
Commit(r) ==
    /\ contents' = r.self.contents
    /\ generation' = r.self.generation
    /\ next_free' = r.self.next_free
    /\ head' = r.self.head
    /\ tail' = r.self.tail
    /\ panicked' = r.panic
    /\ capacity' = r.self.capacity
    /\ LET held == Cardinality(OccupiedSlots(r.self.contents)) IN
       peak' = IF held > peak THEN held ELSE peak

\* Bound of the model: the insertions made so far are fewer than MaxInserts.
HasRoom == Cardinality(issued) < MaxInserts

\* The handle of the element stored at position o (a set: empty when there is
\* no such element).
HandleAt(self, o) ==
    IF IsOccupied(self.contents, o)
    THEN {Index(Unwrap(o), At(self.contents, Unwrap(o)).generation)}
    ELSE {}

\* History of freed positions: a removal that returned an item puts the
\* position of its element in front, an insertion that returned a handle
\* takes the front one away.
Freed(o) == freed' = (IF IsOccupied(contents, o) THEN <<Unwrap(o)>> ELSE <<>>) \o freed
Taken == freed' = (IF freed = <<>> THEN <<>> ELSE Tail(freed))

\* History of the kinds of calls: "new" (none yet), "push_back" / "push_front"
\* (only such calls so far), "drain" (push_back calls, then only pop_front
\* calls), "mixed" (anything else).
Kind(op, item) ==
    IF op = "push_back" /\ only \in {"new", "push_back"}
    THEN only' = "push_back" /\ pushed' = Append(pushed, item)
    ELSE IF op = "push_front" /\ only \in {"new", "push_front"}
    THEN only' = "push_front" /\ pushed' = Append(pushed, item)
    ELSE IF op = "pop_front" /\ only \in {"new", "push_back", "drain"}
    THEN only' = "drain" /\ pushed' = (IF pushed = <<>> THEN <<>> ELSE Tail(pushed))
    ELSE only' = "mixed" /\ pushed' = <<>>

PushBack(item) ==
    /\ ~panicked
    /\ HasRoom
    /\ LET r == push_back(Self, item) IN
       /\ Commit(r)
       /\ last' = Call("push_back", None, Some(item), IF r.panic THEN None ELSE Some(r.ret), "none")
       /\ issued' = IF r.panic THEN issued ELSE issued \cup {r.ret}
       /\ IF r.panic THEN UNCHANGED freed ELSE Taken
    /\ Kind("push_back", item)
    /\ UNCHANGED removed

PushFront(item) ==
    /\ ~panicked
    /\ HasRoom
    /\ LET r == push_front(Self, item) IN
       /\ Commit(r)
       /\ last' = Call("push_front", None, Some(item), IF r.panic THEN None ELSE Some(r.ret), "none")
       /\ issued' = IF r.panic THEN issued ELSE issued \cup {r.ret}
       /\ IF r.panic THEN UNCHANGED freed ELSE Taken
    /\ Kind("push_front", item)
    /\ UNCHANGED removed

InsertBefore(index, item) ==
    /\ ~panicked
    /\ HasRoom
    /\ LET r == insert_before(Self, index, item) IN
       /\ Commit(r)
       /\ last' = Call("insert_before", Some(index), Some(item), r.ret, "none")
       /\ issued' = IF r.ret = None THEN issued ELSE issued \cup {Unwrap(r.ret)}
       /\ IF r.ret = None THEN UNCHANGED freed ELSE Taken
    /\ Kind("insert_before", item)
    /\ UNCHANGED removed

InsertAfter(index, item) ==
    /\ ~panicked
    /\ HasRoom
    /\ LET r == insert_after(Self, index, item) IN
       /\ Commit(r)
       /\ last' = Call("insert_after", Some(index), Some(item), r.ret, "none")
       /\ issued' = IF r.ret = None THEN issued ELSE issued \cup {Unwrap(r.ret)}
       /\ IF r.ret = None THEN UNCHANGED freed ELSE Taken
    /\ Kind("insert_after", item)
    /\ UNCHANGED removed

Remove(index) ==
    /\ ~panicked
    /\ LET r == remove(Self, index) IN
       /\ Commit(r)
       /\ last' = Call("remove", Some(index), None, r.ret, remove_case(Self, index))
       /\ removed' = IF r.ret = None THEN removed
                     ELSE removed \cup HandleAt(Self, Some(index.index))
       /\ IF r.ret = None THEN UNCHANGED freed ELSE Freed(Some(index.index))
    /\ Kind("remove", None)
    /\ UNCHANGED issued

PopFront ==
    /\ ~panicked
    /\ LET r == pop_front(Self) IN
       /\ Commit(r)
       /\ last' = Call("pop_front", None, None, r.ret, "none")
       /\ removed' = IF r.ret = None THEN removed
                     ELSE removed \cup HandleAt(Self, head)
       /\ IF r.ret = None THEN UNCHANGED freed ELSE Freed(head)
    /\ Kind("pop_front", None)
    /\ UNCHANGED issued

GetMut(index) ==
    /\ ~panicked
    /\ LET r == get_mut(Self, index) IN
       /\ Commit(r)
       /\ last' = Call("get_mut", Some(index), None, r.ret, "none")
    /\ Kind("get_mut", None)
    /\ UNCHANGED <<issued, removed, freed>>

\* One list, driven by any calls; the second list is not used.
Next ==
    \/ (\E item \in Values : PushBack(item)) /\ UNCHANGED other
    \/ (\E item \in Values : PushFront(item)) /\ UNCHANGED other
    \/ (\E index \in Handles, item \in Values : InsertBefore(index, item))
         /\ UNCHANGED other
    \/ (\E index \in Handles, item \in Values : InsertAfter(index, item))
         /\ UNCHANGED other
    \/ (\E index \in Handles : Remove(index)) /\ UNCHANGED other
    \/ PopFront /\ UNCHANGED other

Spec == Init /\ [][Next]_vars

\* The same, and calls of get_mut.
NextLookup ==
    \/ Next
    \/ (\E index \in Handles : GetMut(index)) /\ UNCHANGED other

SpecLookup == Init /\ [][NextLookup]_vars

\* ------------------------------------------------------------------ two lists
\* A call on the second list, with outcome r, of which the list is kept;
\* the first list is left alone.
OtherCall(r) ==
    /\ ~panicked
    /\ ~other.panic
    /\ other' = [r EXCEPT !.ret = None]
    /\ UNCHANGED <<contents, generation, next_free, head, tail, panicked, last,
                   issued, removed, freed, only, pushed, capacity, peak>>

\* Bound of the model: the insertions made so far on the second list (its
\* live elements and its removed ones) are fewer than MaxPair.
OtherHasRoom ==
    Cardinality({p \in 0..(Len(other.self.contents) - 1) :
                   IsOccupied(other.self.contents, Some(p))})
      + other.self.generation < MaxPair

\* The handles of the live elements of the second list.
OtherHandles ==
    UNION {HandleAt(other.self, Some(p)) : p \in 0..(Len(other.self.contents) - 1)}

OtherPushBack(item) == OtherHasRoom /\ OtherCall(push_back(other.self, item))

OtherPushFront(item) == OtherHasRoom /\ OtherCall(push_front(other.self, item))

OtherRemove(index) == OtherCall(remove(other.self, index))

OtherPopFront == OtherCall(pop_front(other.self))

\* Two lists built with new(), each driven by calls of its own.
PairNext ==
    \/ (\E item \in Values : PushBack(item))
         /\ Cardinality(issued') <= MaxPair /\ UNCHANGED other
    \/ (\E item \in Values : PushFront(item))
         /\ Cardinality(issued') <= MaxPair /\ UNCHANGED other
    \/ (\E index \in issued \ removed : Remove(index)) /\ UNCHANGED other
    \/ PopFront /\ UNCHANGED other
    \/ \E item \in Values : OtherPushBack(item)
    \/ \E item \in Values : OtherPushFront(item)
    \/ \E index \in OtherHandles : OtherRemove(index)
    \/ OtherPopFront

SpecPair == Init /\ [][PairNext]_vars

\* ------------------------------------------------------------------ two lists, same calls
\* The call `call` (a record of Call) made on the list self.
apply(self, call) ==
    LET handle(r) == IF r.panic THEN r ELSE Ok(r.self, Some(r.ret)) IN
    CASE call.op = "push_back" -> handle(push_back(self, Unwrap(call.item)))
      [] call.op = "push_front" -> handle(push_front(self, Unwrap(call.item)))
      [] call.op = "insert_before" ->
           insert_before(self, Unwrap(call.index), Unwrap(call.item))
      [] call.op = "insert_after" ->
           insert_after(self, Unwrap(call.index), Unwrap(call.item))
      [] call.op = "remove" -> remove(self, Unwrap(call.index))
      [] call.op = "pop_front" -> pop_front(self)

\* The second list gets the call the first one got; at most MaxLockstep
\* insertions have succeeded.
Lockstep ==
    /\ Cardinality(issued') <= MaxLockstep
    /\ other' = apply(other.self, last')

\* let mut list = IndexList::new();
\* let mut other = IndexList::with_capacity(size);
InitReserved == ListInit /\ \E size \in Sizes : other = Ok(with_capacity(size), None)

NextReserved ==
    \/ (\E item \in Values : PushBack(item)) /\ Lockstep
    \/ (\E item \in Values : PushFront(item)) /\ Lockstep
    \/ (\E index \in Handles, item \in Values : InsertBefore(index, item)) /\ Lockstep
    \/ (\E index \in Handles, item \in Values : InsertAfter(index, item)) /\ Lockstep
    \/ (\E index \in Handles : Remove(index)) /\ Lockstep
    \/ PopFront /\ Lockstep

SpecReserved == InitReserved /\ [][NextReserved]_vars

\* ------------------------------------------------------------------ corrupted lists
\* A chain pointer of the list resolves to a slot of the wrong tag: head,
\* tail, or the next or prev of an Occupied slot to a Free slot, next_free or
\* the next_free of a Free slot to an Occupied one.
PointsAt(c, o, tag) == o # None /\ InRange(c, Unwrap(o)) /\ At(c, Unwrap(o)).tag = tag

WrongTag(self) ==
    \/ PointsAt(self.contents, self.head, "Free")
    \/ PointsAt(self.contents, self.tail, "Free")
    \/ PointsAt(self.contents, self.next_free, "Occupied")
    \/ \E p \in 0..(Len(self.contents) - 1) :
         LET e == At(self.contents, p) IN
         IF e.tag = "Free" THEN PointsAt(self.contents, e.next_free, "Occupied")
         ELSE \/ PointsAt(self.contents, e.next, "Free")
              \/ PointsAt(self.contents, e.prev, "Free")

\* The values of type IndexList<T> with at most `slots` slots, every pointer
\* None or a position inside the table, items 5 and generations 0 (such values
\* are written field by field inside the crate, as its tests do), that have a
\* pointer to a slot of the wrong tag.
CorruptedLists(slots) ==
    LET Links(n) == {None} \cup {Some(p) : p \in 0..(n - 1)}
        Entries(n) == {Free(nf) : nf \in Links(n)}
                        \cup {Occupied(5, 0, nx, pv) : nx \in Links(n), pv \in Links(n)}
        Lists(n) == {IndexList(c, n, 0, nf, h, t) :
                       c \in [1..n -> Entries(n)],
                       nf \in Links(n), h \in Links(n), t \in Links(n)}
    IN {l \in UNION {Lists(n) : n \in 0..slots} : WrongTag(l)}

\* A corrupted list, and a client that holds the handles of its elements.
InitCorrupted ==
    \E l \in CorruptedLists(MaxSlots) :
        /\ contents = l.contents
        /\ generation = l.generation
        /\ next_free = l.next_free
        /\ head = l.head
        /\ tail = l.tail
        /\ capacity = l.capacity
        /\ panicked = FALSE
        /\ last = Call("new", None, None, None, "none")
        /\ issued = UNION {HandleAt(l, Some(p)) : p \in 0..(Len(l.contents) - 1)}
        /\ removed = {}
        /\ freed = <<>>
        /\ only = "mixed"
        /\ pushed = <<>>
        /\ peak = Cardinality(OccupiedSlots(l.contents))
        /\ other = Ok(new, None)

\* One call on the corrupted list.
NextCorrupted ==
    \/ last.op = "new" /\ (\E item \in Values : PushBack(item)) /\ UNCHANGED other
    \/ last.op = "new" /\ (\E item \in Values : PushFront(item)) /\ UNCHANGED other
    \/ last.op = "new"
         /\ (\E index \in Handles, item \in Values : InsertBefore(index, item))
         /\ UNCHANGED other
    \/ last.op = "new"
         /\ (\E index \in Handles, item \in Values : InsertAfter(index, item))
         /\ UNCHANGED other
    \/ last.op = "new" /\ (\E index \in Handles : Remove(index)) /\ UNCHANGED other
    \/ last.op = "new" /\ PopFront /\ UNCHANGED other
    \/ last.op = "new" /\ (\E index \in Handles : GetMut(index)) /\ UNCHANGED other

SpecCorrupted == InitCorrupted /\ [][NextCorrupted]_vars

\* ------------------------------------------------------------------ sequences
Reverse(s) == [i \in 1..Len(s) |-> s[Len(s) + 1 - i]]

\* The positions met by following prev from o, until None ("none"), a Free
\* slot or a position outside the table ("panic"), or for fuel steps ("more").
RECURSIVE WalkPrev(_, _, _)
WalkPrev(c, o, fuel) ==
    IF o = None THEN [at |-> <<>>, end |-> "none"]
    ELSE IF fuel = 0 THEN [at |-> <<>>, end |-> "more"]
    ELSE IF ~IsOccupied(c, o) THEN [at |-> <<>>, end |-> "panic"]
    ELSE LET rest == WalkPrev(c, At(c, Unwrap(o)).prev, fuel - 1) IN
         [at |-> <<Unwrap(o)>> \o rest.at, end |-> rest.end]

\* s without its i-th element, and s with x put in front of its i-th element
\* (i = Len(s) + 1: at the end).
RemoveAt(s, i) == SubSeq(s, 1, i - 1) \o SubSeq(s, i + 1, Len(s))
InsertAt(s, i, x) == SubSeq(s, 1, i - 1) \o <<x>> \o SubSeq(s, i, Len(s))

\* Where x sits in s: 0 when it does not.
Where(s, x) ==
    IF \E i \in 1..Len(s) : s[i] = x
    THEN CHOOSE i \in 1..Len(s) : s[i] = x
    ELSE 0

InsertOps == {"push_back", "push_front", "insert_before", "insert_after"}
RemoveOps == {"remove", "pop_front"}

\* ------------------------------------------------------------------ claims

\* C1: generational invalidation.  Once the element a handle referred to has
\* been removed (by remove or by pop_front), get on that handle returns None
\* in every later state, also after insertions have reused its position.
C1_GenerationalInvalidation ==
    \A h \in removed : get(Self, h) = None

\* A removed handle whose position holds a later element.
C1_Witness ==
    \E h \in removed :
        /\ IsOccupied(contents, Some(h.index))
        /\ last.op \in InsertOps

\* C2: handle validity round trip.  The handle an insertion returns makes get
\* return the inserted item, and get keeps returning it in every state until
\* that element is removed, whatever else is inserted or removed.
C2_HandleRoundTrip ==
    /\ [](\A h \in issued \ removed : get(Self, h) # None)
    /\ [][/\ (last'.op \in InsertOps /\ last'.ret # None)
               => get(Self', Unwrap(last'.ret)) = last'.item
          /\ \A h \in issued \ removed' : get(Self', h) = get(Self, h)]_vars

\* A live handle that has survived the removal of another element and the
\* reuse of that element's position.
C2_Witness ==
    \E h \in issued \ removed : \E g \in removed :
        /\ g.index # h.index
        /\ IsOccupied(contents, Some(g.index))
        /\ get(Self, h) # None
        /\ At(contents, g.index).generation > At(contents, h.index).generation

\* C3: order preservation.  After push_back calls only, iteration yields the
\* items in insertion order; after push_front calls only, in reverse
\* insertion order.
C3_OrderPreservation ==
    /\ only = "push_back"
         => iter(Self).end = "none" /\ iter(Self).items = pushed
    /\ only = "push_front"
         => iter(Self).end = "none" /\ iter(Self).items = Reverse(pushed)

\* Three push_front calls with different first and last items.
C3_Witness ==
    /\ only = "push_front"
    /\ Len(pushed) = 3
    /\ pushed[1] # pushed[3]

\* C4: successful remove.  When the handle is valid, remove returns the item
\* of its element, and iteration afterwards yields the previous sequence with
\* that one element deleted; head and tail are the ends of the new sequence.
C4_RemoveSuccess ==
    [][(last'.op = "remove" /\ get(Self, Unwrap(last'.index)) # None) =>
        LET h == Unwrap(last'.index)
            i == Where(iter(Self).at, h.index)
        IN /\ i # 0
           /\ last'.ret = get(Self, h)
           /\ iter(Self').end = "none"
           /\ iter(Self').at = RemoveAt(iter(Self).at, i)
           /\ iter(Self').items = RemoveAt(iter(Self).items, i)
           /\ head' = (IF iter(Self').at = <<>> THEN None
                       ELSE Some(iter(Self').at[1]))
           /\ tail' = (IF iter(Self').at = <<>> THEN None
                       ELSE Some(iter(Self').at[Len(iter(Self').at)]))
           /\ last'.role = (IF Len(iter(Self).at) = 1 THEN "sole"
                            ELSE IF i = 1 THEN "head"
                            ELSE IF i = Len(iter(Self).at) THEN "tail"
                            ELSE "middle")]_vars

\* An interior element has been removed.
C4_Witness ==
    /\ last.op = "remove"
    /\ last.ret # None
    /\ last.role = "middle"

\* What makes a handle fail validation: the list is empty, the position is
\* outside the table, the slot is Free, or it is Occupied at another generation.
Invalid(self, h) ==
    \/ self.head = None
    \/ ~InRange(self.contents, h.index)
    \/ At(self.contents, h.index).tag = "Free"
    \/ At(self.contents, h.index).generation # h.generation

\* C5: a failed remove leaves the container untouched.  When the list is
\* empty or the handle's position is outside the table, holds a Free slot or
\* holds an Occupied slot of another generation, remove returns None and
\* contents, generation, next_free, head and tail are unchanged.
C5_FailedRemoveNoMutation ==
    [][(last'.op = "remove" /\ Invalid(Self, Unwrap(last'.index))) =>
        /\ last'.ret = None
        /\ ~panicked'
        /\ UNCHANGED list_vars]_vars

\* remove has been called with a stale handle whose position holds a later
\* element, and has returned None.
C5_Witness ==
    /\ last.op = "remove"
    /\ last.ret = None
    /\ IsOccupied(contents, Some(Unwrap(last.index).index))
    /\ At(contents, Unwrap(last.index).index).generation
         # Unwrap(last.index).generation

\* C6: idempotent absence.  In every state after the removal of h's element,
\* also after insertions that reuse h's position, remove(h) returns None and
\* changes nothing; the call that removed the element returned its item.
C6_IdempotentAbsence ==
    /\ [](\A h \in removed :
            LET r == remove(Self, h) IN
            r.ret = None /\ ~r.panic /\ r.self = Self)
    /\ [][(last'.op = "remove" /\ Unwrap(last'.index) \in removed' \ removed)
            => last'.ret = get(Self, Unwrap(last'.index)) /\ last'.ret # None]_vars

\* remove has been called a second time on a handle, after its position was
\* reused, and has returned None.
C6_Witness ==
    /\ last.op = "remove"
    /\ last.ret = None
    /\ Unwrap(last.index) \in removed
    /\ IsOccupied(contents, Some(Unwrap(last.index).index))
    /\ Len(iter(Self).at) > 1

\* C7: insert_before(h, v) with a valid h returns a fresh valid handle n; v
\* sits immediately before h's element (prev_index(h) = n, next_index(n) =
\* h), all other elements keep their order, and the head becomes the new
\* element exactly when h's element was the head.
C7_InsertBefore ==
    [][(last'.op = "insert_before" /\ ~Invalid(Self, Unwrap(last'.index))) =>
        LET h == Unwrap(last'.index)
            i == Where(iter(Self).at, h.index)
        IN /\ last'.ret # None
           /\ ~panicked'
           /\ LET n == Unwrap(last'.ret) IN
              /\ n \notin issued
              /\ get(Self', n) = last'.item
              /\ get(Self', h) = get(Self, h)
              /\ prev_index(Self', h) = Ok(Self', Some(n))
              /\ next_index(Self', n) = Ok(Self', Some(h))
              /\ i # 0
              /\ iter(Self').end = "none"
              /\ iter(Self').at = InsertAt(iter(Self).at, i, n.index)
              /\ iter(Self').items = InsertAt(iter(Self).items, i, Unwrap(last'.item))
              /\ (head' = Some(n.index)) <=> (head = Some(h.index))
              /\ (head' # Some(n.index)) => head' = head
              /\ tail' = tail]_vars

\* insert_before has spliced an element in front of an element that was
\* not the head.
C7_Witness ==
    /\ last.op = "insert_before"
    /\ last.ret # None
    /\ head # Some(Unwrap(last.ret).index)
    /\ Len(iter(Self).at) = 3

\* C8: insert_after(h, v) with a valid h returns a fresh valid handle n; v
\* sits immediately after h's element (next_index(h) = n, prev_index(n) = h),
\* all other elements keep their order, and the tail becomes the new element
\* exactly when h's element was the tail.
C8_InsertAfter ==
    [][(last'.op = "insert_after" /\ ~Invalid(Self, Unwrap(last'.index))) =>
        LET h == Unwrap(last'.index)
            i == Where(iter(Self).at, h.index)
        IN /\ last'.ret # None
           /\ ~panicked'
           /\ LET n == Unwrap(last'.ret) IN
              /\ n \notin issued
              /\ get(Self', n) = last'.item
              /\ get(Self', h) = get(Self, h)
              /\ next_index(Self', h) = Ok(Self', Some(n))
              /\ prev_index(Self', n) = Ok(Self', Some(h))
              /\ i # 0
              /\ iter(Self').end = "none"
              /\ iter(Self').at = InsertAt(iter(Self).at, i + 1, n.index)
              /\ iter(Self').items = InsertAt(iter(Self).items, i + 1, Unwrap(last'.item))
              /\ (tail' = Some(n.index)) <=> (tail = Some(h.index))
              /\ (tail' # Some(n.index)) => tail' = tail
              /\ head' = head]_vars

\* insert_after has spliced an element behind an element that was not the
\* tail.
C8_Witness ==
    /\ last.op = "insert_after"
    /\ last.ret # None
    /\ tail # Some(Unwrap(last.ret).index)
    /\ Len(iter(Self).at) = 3

\* C9: insert_before and insert_after return None and change nothing (no
\* slot taken from the free list, no growth) when the target handle is
\* stale, its position holds a Free slot, or its position is outside the
\* table.
C9_FailedInsertNoMutation ==
    [][(/\ last'.op \in {"insert_before", "insert_after"}
        /\ LET h == Unwrap(last'.index) IN
           \/ ~InRange(contents, h.index)
           \/ At(contents, h.index).tag = "Free"
           \/ At(contents, h.index).generation # h.generation) =>
        /\ last'.ret = None
        /\ ~panicked'
        /\ UNCHANGED list_vars]_vars

\* An insertion next to a removed element has been refused while the free
\* list and other elements were there to take.
C9_Witness ==
    /\ last.op \in {"insert_before", "insert_after"}
    /\ last.ret = None
    /\ Unwrap(last.index) \in removed
    /\ next_free # None
    /\ head # None

\* C10: pop_front on a non-empty list returns the first element of iteration
\* and leaves the others in order; on an empty list it returns None and
\* changes nothing.  After push_back calls only, successive pop_front calls
\* return the pushed items in insertion order, then None.
C10_PopFront ==
    [][last'.op = "pop_front" =>
        /\ ~panicked'
        /\ IF iter(Self).at = <<>>
           THEN last'.ret = None /\ UNCHANGED list_vars
           ELSE /\ last'.ret = Some(iter(Self).items[1])
                /\ iter(Self').end = "none"
                /\ iter(Self').at = Tail(iter(Self).at)
                /\ iter(Self').items = Tail(iter(Self).items)
        /\ only' = "drain"
             => last'.ret = (IF pushed = <<>> THEN None ELSE Some(Head(pushed)))]_vars

\* Three items pushed, three popped, and a fourth pop_front has returned None.
C10_Witness ==
    /\ only = "drain"
    /\ last.op = "pop_front"
    /\ last.ret = None
    /\ generation = 3
    /\ Len(contents) = 3

\* C11: free-list LIFO reuse.  An insertion made while positions freed by
\* removals are still unused goes into the most recently freed of them; so
\* the first insertion after a removal takes the removed element's position.
C11_LifoReuse ==
    [][(last'.op \in InsertOps /\ last'.ret # None /\ freed # <<>>)
         => Unwrap(last'.ret).index = Head(freed)]_vars

\* Two elements at different positions were removed, and two insertions have
\* since taken both positions.
C11_Witness ==
    /\ last.op \in InsertOps
    /\ last.ret # None
    /\ freed = <<>>
    /\ \E g1 \in removed, g2 \in removed :
         /\ g1.index # g2.index
         /\ IsOccupied(contents, Some(g1.index))
         /\ IsOccupied(contents, Some(g2.index))

\* C12: the generation counter starts at 0, goes up by exactly 1 in every
\* removal that returns an item and is left alone by every other call
\* (insertions, refused removals and insertions, get_mut); so it never
\* decreases and always equals the number of elements removed so far.
C12_GenerationCounts ==
    /\ generation = 0
    /\ [](generation = Cardinality(removed))
    /\ [][generation' = generation
            + (IF last'.op \in RemoveOps /\ last'.ret # None THEN 1 ELSE 0)]_vars

\* Two removals have succeeded, a third has been refused and the counter is 2.
C12_Witness ==
    /\ last.op = "remove"
    /\ last.ret = None
    /\ generation = 2
    /\ head # None

\* C13: an insertion writes the new Occupied slot with the container's
\* generation of that moment, does not increment it, and returns a handle
\* with the position and generation of the slot it wrote; a slot's stored
\* generation does not change while its element stays live.
C13_InsertionStamp ==
    [][/\ (last'.op \in InsertOps /\ last'.ret # None) =>
            LET n == Unwrap(last'.ret) IN
            /\ generation' = generation
            /\ n.generation = generation
            /\ ~IsOccupied(contents, Some(n.index))
            /\ IsOccupied(contents', Some(n.index))
            /\ At(contents', n.index).generation = n.generation
            /\ At(contents', n.index).item = Unwrap(last'.item)
       /\ \A p \in 0..(Len(contents) - 1) :
            (IsOccupied(contents, Some(p)) /\ IsOccupied(contents', Some(p)))
              => At(contents', p).generation = At(contents, p).generation]_vars

\* push_back has put an element behind another one, in a reused slot, at a
\* generation above 0.
C13_Witness ==
    /\ last.op = "push_back"
    /\ last.ret # None
    /\ Unwrap(last.ret).generation > 0
    /\ Unwrap(last.ret).index + 1 < Len(contents)
    /\ At(contents, Unwrap(last.ret).index).prev # None

\* C14: the slot table never shrinks.  Its length never decreases, and a
\* removal leaves the length as it is and turns the element's slot into a
\* Free entry in place.
C14_TableNeverShrinks ==
    [][/\ Len(contents') >= Len(contents)
       /\ (last'.op \in RemoveOps /\ last'.ret # None) =>
            LET p == IF last'.op = "remove" THEN Unwrap(last'.index).index
                     ELSE Unwrap(head)
            IN /\ Len(contents') = Len(contents)
               /\ InRange(contents', p)
               /\ At(contents', p).tag = "Free"]_vars

\* The element in the last slot of the table has just been removed, and the
\* slot is still there.
C14_Witness ==
    /\ last.op \in RemoveOps
    /\ last.ret # None
    /\ Len(contents) >= 2
    /\ next_free = Some(Len(contents) - 1)
    /\ At(contents, Len(contents) - 1).tag = "Free"

\* C15: reuse is preferred over growth.  A successful insertion with
\* next_free = None appends one slot and puts the element at the old length;
\* with next_free = Some(p) it leaves the length alone, puts the element at p
\* and makes the next_free stored in slot p the container's next_free.  As
\* long as nothing was removed, the k-th insertion (from 0) is at position k.
C15_ReuseBeforeGrowth ==
    [][(last'.op \in InsertOps /\ last'.ret # None) =>
        LET n == Unwrap(last'.ret) IN
        /\ (Len(contents') = Len(contents) + 1) <=> (next_free = None)
        /\ next_free = None =>
             /\ n.index = Len(contents)
             /\ next_free' = None
        /\ next_free # None =>
             /\ Len(contents') = Len(contents)
             /\ n.index = Unwrap(next_free)
             /\ next_free' = At(contents, Unwrap(next_free)).next_free
        /\ removed = {} => n.index = Cardinality(issued)]_vars

\* An insertion has reused a slot whose stored next_free named another free
\* slot, which is now the container's next_free.
C15_Witness ==
    /\ last.op \in InsertOps
    /\ last.ret # None
    /\ Unwrap(last.ret).index + 1 < Len(contents)
    /\ next_free # None
    /\ freed # <<>>

\* C16: neighbour handles are symmetric.  For every live element h other
\* than the tail, prev_index of next_index(h) is h; for every live element h
\* other than the head, next_index of prev_index(h) is h (same position and
\* same generation).
C16_NeighbourSymmetry ==
    \A p \in 0..(Len(contents) - 1) : \A h \in HandleAt(Self, Some(p)) :
        /\ Some(p) # tail =>
             LET n == next_index(Self, h) IN
             /\ ~n.panic
             /\ n.ret # None
             /\ prev_index(Self, Unwrap(n.ret)) = Ok(Self, Some(h))
        /\ Some(p) # head =>
             LET q == prev_index(Self, h) IN
             /\ ~q.panic
             /\ q.ret # None
             /\ next_index(Self, Unwrap(q.ret)) = Ok(Self, Some(h))

\* Three live elements, the middle one of a generation other than that of
\* both of its neighbours.
C16_Witness ==
    \E p \in 0..(Len(contents) - 1) :
        /\ IsOccupied(contents, Some(p))
        /\ Some(p) # head
        /\ Some(p) # tail
        /\ IsOccupied(contents, At(contents, p).next)
        /\ IsOccupied(contents, At(contents, p).prev)
        /\ At(contents, Unwrap(At(contents, p).next)).generation # At(contents, p).generation
        /\ At(contents, Unwrap(At(contents, p).prev)).generation # At(contents, p).generation

\* C17: next_index and prev_index never abort.  For a handle that is out of
\* range, names a Free slot or is stale they return None.  For a valid handle,
\* the i-th element in iteration order, next_index returns None when it is the
\* last one and otherwise the handle of the (i+1)-th, with that element's own
\* stored generation, on which get returns the (i+1)-th item; prev_index
\* likewise with the first one and the (i-1)-th.
C17_NeighbourLookup ==
    \A h \in Handles :
        LET n == next_index(Self, h)
            q == prev_index(Self, h)
            at == iter(Self).at
            items == iter(Self).items
        IN /\ ~n.panic
           /\ ~q.panic
           /\ IF Invalid(Self, h)
              THEN n.ret = None /\ q.ret = None
              ELSE LET i == Where(at, h.index) IN
                   /\ i > 0
                   /\ IF i = Len(at) THEN n.ret = None
                      ELSE /\ n.ret = Some(Index(at[i + 1],
                                                 At(contents, at[i + 1]).generation))
                           /\ get(Self, Unwrap(n.ret)) = Some(items[i + 1])
                   /\ IF i = 1 THEN q.ret = None
                      ELSE /\ q.ret = Some(Index(at[i - 1],
                                                 At(contents, at[i - 1]).generation))
                           /\ get(Self, Unwrap(q.ret)) = Some(items[i - 1])

\* A stale handle whose slot is occupied again, a handle of a Free slot, and
\* two live elements whose list order is the reverse of their slot order and
\* whose generations differ from the list's.
C17_Witness ==
    /\ \E h \in removed : IsOccupied(contents, Some(h.index))
    /\ \E h \in removed : InRange(contents, h.index)
                          /\ ~IsOccupied(contents, Some(h.index))
    /\ Len(iter(Self).at) >= 2
    /\ iter(Self).at[1] > iter(Self).at[2]
    /\ At(contents, iter(Self).at[1]).generation # generation
    /\ At(contents, iter(Self).at[1]).generation # At(contents, iter(Self).at[2]).generation

\* C18: index_of(v) returns the handle of the first element equal to v in
\* list order, with the generation stored in that element's slot, so that get
\* on it returns v; it returns None when no live element equals v.
C18_IndexOfFirst ==
    \A v \in Values :
        LET r == index_of(Self, v)
            at == iter(Self).at
            items == iter(Self).items
        IN /\ r.end \in {"found", "none"}
           /\ IF \E i \in 1..Len(items) : items[i] = v
              THEN LET i == CHOOSE k \in 1..Len(items) :
                              /\ items[k] = v
                              /\ \A j \in 1..(k - 1) : items[j] # v
                   IN /\ r.ret = Some(Index(at[i], At(contents, at[i]).generation))
                      /\ get(Self, Unwrap(r.ret)) = Some(v)
              ELSE r.ret = None

\* A value occurs twice, its first occurrence in list order is in a reused
\* slot behind that of the second one, stored at a generation that is neither
\* 0 nor the list's.
C18_Witness ==
    \E v \in Values :
        LET at == iter(Self).at
            items == iter(Self).items
        IN \E i \in 1..Len(items) : \E j \in (i + 1)..Len(items) :
            /\ items[i] = v
            /\ items[j] = v
            /\ \A k \in 1..(i - 1) : items[k] # v
            /\ at[i] > at[j]
            /\ At(contents, at[i]).generation > 0
            /\ At(contents, at[i]).generation # generation

\* C19: contains(v) is true exactly when an element reachable from head along
\* next equals v, and exactly when index_of(v) returns a handle; a value
\* whose only occurrence was removed is not contained.
C19_ContainsLive ==
    \A v \in Values :
        LET r == contains(Self, v)
            items == iter(Self).items
        IN /\ r.end \in {"found", "none"}
           /\ r.ret <=> (\E i \in 1..Len(items) : items[i] = v)
           /\ r.ret <=> (index_of(Self, v).ret # None)

\* The only occurrence of a value has just been removed from a list that
\* still holds the other value twice; the freed slot is still in the table.
C19_Witness ==
    /\ last.op \in RemoveOps
    /\ last.ret # None
    /\ ~contains(Self, Unwrap(last.ret)).ret
    /\ \E v \in Values : contains(Self, v).ret
    /\ Len(iter(Self).items) >= 2
    /\ next_free # None
    /\ At(contents, Unwrap(next_free)).tag = "Free"

\* C20: lookups with an invalid handle return None and never abort.  For a
\* handle whose position is outside the slot table, or holds a Free slot, or
\* holds an element of another generation, get returns None, and a call of
\* get_mut returns None without panicking.
C20_LookupsNeverAbort ==
    [][/\ \A h \in Handles :
            (\/ ~InRange(contents, h.index)
             \/ At(contents, h.index).tag = "Free"
             \/ At(contents, h.index).generation # h.generation)
              => get(Self, h) = None
       /\ (/\ last'.op = "get_mut"
           /\ LET h == Unwrap(last'.index) IN
              \/ ~InRange(contents, h.index)
              \/ At(contents, h.index).tag = "Free"
              \/ At(contents, h.index).generation # h.generation)
            => (last'.ret = None /\ ~panicked')]_vars

\* C21: no corruption abort is reachable.  No call of push_back, push_front,
\* insert_before, insert_after, remove or pop_front panics, and in every
\* reachable state next_index and prev_index on every handle, index_of
\* and contains on every value, and the iteration end without meeting a Free
\* slot or a position outside the table.
C21_NoCorruptionAbort ==
    /\ ~panicked
    /\ \A h \in Handles :
         /\ ~next_index(Self, h).panic
         /\ ~prev_index(Self, h).panic
    /\ \A v \in Values :
         /\ index_of(Self, v).end \in {"found", "none"}
         /\ contains(Self, v).end \in {"found", "none"}
    /\ iter(Self).end = "none"

\* After two removals, an insertion before a stale handle has been refused
\* on a list that still holds an element, in a reused slot.
C21_Witness ==
    /\ ~panicked
    /\ last.op = "insert_before"
    /\ last.ret = None
    /\ Unwrap(last.index) \in removed
    /\ Cardinality(removed) >= 2
    /\ head # None
    /\ At(contents, Unwrap(head)).generation > 0

\* C22: head() is None exactly when the list is empty and otherwise the first
\* item of the iteration (head_mut() agrees with it); head_index() and
\* tail_index() are None exactly when the list is empty and otherwise the
\* valid handles of the first and the last element of the iteration: get on
\* them returns these items, prev_index of the head's handle and next_index of
\* the tail's are None.
C22_HeadAndTailAccessors ==
    LET at == iter(Self).at
        items == iter(Self).items
    IN /\ (head_value(Self) = None) <=> (items = <<>>)
       /\ (head_index(Self) = None) <=> (items = <<>>)
       /\ (tail_index(Self) = None) <=> (items = <<>>)
       /\ head_mut(Self) = Ok(Self, head_value(Self))
       /\ items # <<>> =>
            LET h == Unwrap(head_index(Self))
                t == Unwrap(tail_index(Self))
            IN /\ head_value(Self) = Some(items[1])
               /\ h.index = at[1]
               /\ t.index = at[Len(at)]
               /\ h \in issued \ removed
               /\ t \in issued \ removed
               /\ get(Self, h) = head_value(Self)
               /\ get(Self, t) = Some(items[Len(items)])
               /\ prev_index(Self, h) = Ok(Self, None)
               /\ next_index(Self, t) = Ok(Self, None)

\* After removals, the list holds several elements whose first and last
\* differ in item and in generation, the first in a slot behind the last's.
C22_Witness ==
    /\ removed # {}
    /\ head_index(Self) # None
    /\ tail_index(Self) # None
    /\ Unwrap(head_index(Self)).index > Unwrap(tail_index(Self)).index
    /\ Unwrap(head_index(Self)).generation # Unwrap(tail_index(Self)).generation
    /\ head_value(Self) # get(Self, Unwrap(tail_index(Self)))

\* C23: equality is structural.  Two lists compare equal exactly when their
\* slot sequences (Free entries with their next_free, Occupied entries with
\* item, generation, next and prev), generation counters, next_free, head and
\* tail are identical; equal lists yield the same items.
C23_StructuralEquality ==
    LET a == Self
        b == other.self
    IN /\ eq(a, b) <=> (/\ a.contents = b.contents
                        /\ a.generation = b.generation
                        /\ a.next_free = b.next_free
                        /\ a.head = b.head
                        /\ a.tail = b.tail)
       /\ eq(a, b) => (iter(a).items = iter(b).items /\ iter(a).at = iter(b).at)

\* Two lists reached by different calls yield the same items in the same
\* order, from the same slots, and compare unequal.
C23_Witness ==
    /\ iter(Self).items = iter(other.self).items
    /\ iter(Self).at = iter(other.self).at
    /\ iter(Self).items # <<>>
    /\ ~eq(Self, other.self)

\* C24: reserved capacity is unobservable.  A list built with new() and a
\* list built with with_capacity(size), given the same calls, return the same
\* results and handles in every call and compare equal after every call,
\* whatever the capacities of their vectors.
C24_CapacityUnobservable ==
    /\ other.ret = last.ret
    /\ other.panic = panicked
    /\ eq(Self, other.self)

\* After a removal and an insertion that reused its slot, the reserved
\* vector is full and has not been reallocated, the other one has been, and
\* their capacities differ.
C24_Witness ==
    /\ removed # {}
    /\ Len(contents) = other.self.capacity
    /\ capacity > other.self.capacity
    /\ last.op \in InsertOps
    /\ last.ret # None

\* C25: the consuming iteration yields what the borrowing one yields.  In
\* every reachable state into_iter() and iter() both end normally with the
\* same sequence of items, one for every Occupied slot of the table.
C25_IntoIterIsIter ==
    /\ into_iter(Self).end = "none"
    /\ iter(Self).end = "none"
    /\ into_iter(Self).items = iter(Self).items
    /\ Len(into_iter(Self).items)
         = Cardinality({p \in 0..(Len(contents) - 1) : IsOccupied(contents, Some(p))})

\* After removals, a list of different items whose list order is not the
\* order of their slots, with a Free slot in the table.
C25_Witness ==
    /\ removed # {}
    /\ next_free # None
    /\ Len(iter(Self).at) >= 2
    /\ iter(Self).at[1] > iter(Self).at[2]
    /\ iter(Self).items[1] # iter(Self).items[2]

\* C26: live-chain invariant.  In every reachable state, following next from
\* head reaches None after visiting exactly the Occupied slots of the table,
\* each once, the last one being tail; following prev from tail visits the
\* same positions in reverse order; the head's prev and the tail's next are
\* None.
C26_LiveChain ==
    LET fw == iter(Self)
        bw == WalkPrev(contents, tail, Len(contents) + 1)
    IN /\ fw.end = "none"
       /\ bw.end = "none"
       /\ {fw.at[i] : i \in 1..Len(fw.at)} = OccupiedSlots(contents)
       /\ Len(fw.at) = Cardinality(OccupiedSlots(contents))
       /\ bw.at = Reverse(fw.at)
       /\ IF fw.at = <<>> THEN head = None /\ tail = None
          ELSE /\ head = Some(fw.at[1])
               /\ tail = Some(fw.at[Len(fw.at)])
               /\ At(contents, Unwrap(head)).prev = None
               /\ At(contents, Unwrap(tail)).next = None

\* Three live elements whose list order is neither the order of their slots
\* nor its reverse, next to a Free slot.
C26_Witness ==
    /\ Len(iter(Self).at) = 3
    /\ iter(Self).at[1] > iter(Self).at[2]
    /\ iter(Self).at[2] < iter(Self).at[3]
    /\ OccupiedSlots(contents) # 0..(Len(contents) - 1)

\* C27: in every reachable state head is None exactly when tail is None and
\* exactly when the table holds no Occupied slot; when they are not None,
\* both are positions of Occupied slots inside the table.
C27_HeadTailEmptiness ==
    /\ (head = None) <=> (tail = None)
    /\ (head = None) <=> (OccupiedSlots(contents) = {})
    /\ head # None => IsOccupied(contents, head)
    /\ tail # None => IsOccupied(contents, tail)

\* The last element of a list has just been removed: head and tail are None
\* and the table holds several slots, all Free.
C27_Witness ==
    /\ last.op \in RemoveOps
    /\ last.ret # None
    /\ head = None
    /\ tail = None
    /\ Len(contents) >= 2

\* C28: free-list invariant.  In every reachable state, following next_free
\* from the container's next_free reaches None after visiting exactly the
\* Free slots of the table, each once, and no position is both on the free
\* chain and on the live chain.
C28_FreeList ==
    LET fr == WalkFree(contents, next_free, Len(contents) + 1)
        free == (0..(Len(contents) - 1)) \ OccupiedSlots(contents)
        live == iter(Self).at
    IN /\ fr.end = "none"
       /\ {fr.at[i] : i \in 1..Len(fr.at)} = free
       /\ Len(fr.at) = Cardinality(free)
       /\ {fr.at[i] : i \in 1..Len(fr.at)} \cap {live[i] : i \in 1..Len(live)} = {}

\* A free chain of two slots that are not adjacent in the table and are
\* chained in ascending order, around a live element.
C28_Witness ==
    LET fr == WalkFree(contents, next_free, Len(contents) + 1) IN
    /\ Len(fr.at) = 2
    /\ fr.at[1] + 1 < fr.at[2]
    /\ head # None

\* C29: detach step.  A remove or pop_front that returns the element at
\* position p rewrites slot p as Free with the container's previous next_free
\* and sets the container's next_free to p, and changes no slot that was
\* Free; so the free chain always lists the freed positions not yet reused,
\* the latest freed first.
C29_DetachStep ==
    /\ [][(last'.op \in RemoveOps /\ last'.ret # None) =>
            LET p == IF last'.op = "remove" THEN Unwrap(last'.index).index
                     ELSE Unwrap(head)
            IN /\ IsOccupied(contents, Some(p))
               /\ Len(contents') = Len(contents)
               /\ At(contents', p) = Free(next_free)
               /\ next_free' = Some(p)
               /\ \A q \in 0..(Len(contents) - 1) :
                    At(contents, q).tag = "Free" => At(contents', q) = At(contents, q)]_vars
    /\ [](WalkFree(contents, next_free, Len(contents) + 1).at = freed)

\* An element between two others has just been removed while another slot
\* was already free.
C29_Witness ==
    /\ last.op = "remove"
    /\ last.ret # None
    /\ last.role = "middle"
    /\ Len(freed) >= 2
    /\ next_free = Some(freed[1])
    /\ At(contents, freed[1]) = Free(Some(freed[2]))

C31_PushOnEmpty ==
    head = None =>
      \A v \in Values :
        LET f == push_front(Self, v)
            b == push_back(Self, v)
            p == IF next_free # None THEN Unwrap(next_free) ELSE Len(contents)
        IN /\ f = b
           /\ ~b.panic
           /\ b.ret = Index(p, generation)
           /\ b.self.head = Some(p)
           /\ b.self.tail = Some(p)
           /\ b.self.generation = generation
           /\ At(b.self.contents, p) = Occupied(v, generation, None, None)
           /\ IF next_free # None
              THEN /\ Len(b.self.contents) = Len(contents)
                   /\ b.self.next_free = At(contents, p).next_free
              ELSE /\ Len(b.self.contents) = Len(contents) + 1
                   /\ b.self.next_free = None
           /\ \A q \in 0..(Len(contents) - 1) :
                q # p => At(b.self.contents, q) = At(contents, q)

\* push_front has just been called on a list emptied by two removals: its
\* element is head and tail, in a reused slot, and another slot is still free.
C31_Witness ==
    /\ last.op = "push_front"
    /\ last.ret = Some(Index(Unwrap(head), generation))
    /\ head = tail
    /\ generation = 2
    /\ Len(contents) = 2
    /\ next_free # None
    /\ At(contents, Unwrap(head)) = Occupied(Unwrap(last.item), 2, None, None)

\* C32: a stale handle is an older one.  In every reachable state, for every
\* handle an insertion has returned whose position holds an Occupied slot,
\* the generation stored in the slot is at least the handle's; the two are
\* equal exactly when the element the handle was returned for has not been
\* removed; so get refuses the handle (the generations differ) exactly when
\* the handle's generation is older (smaller) than the slot's.
C32_StaleIsOlder ==
    \A h \in issued :
      IsOccupied(contents, Some(h.index)) =>
        LET e == At(contents, h.index) IN
        /\ e.generation >= h.generation
        /\ (e.generation = h.generation) <=> (h \notin removed)
        /\ (get(Self, h) = None) <=> (h.generation < e.generation)
        /\ (remove(Self, h).ret = None) <=> (h.generation < e.generation)

\* The slot of a removed element holds a later element whose generation is
\* at least two ahead of the old handle's, next to a handle that is valid.
C32_Witness ==
    /\ last.op \in InsertOps
    /\ \E h \in removed :
         /\ IsOccupied(contents, Some(h.index))
         /\ At(contents, h.index).generation >= h.generation + 2
         /\ get(Self, h) = None
    /\ \E h \in issued \ removed : get(Self, h) # None /\ h.generation > 0

\* C33: traversal terminates.  In every reachable state the next chain from
\* head visits no position twice and ends in None, so iter, into_iter,
\* contains and index_of, given as many steps as there are live elements
\* (never more than the table has slots), all stop: the iterators return
\* None, the searches find their item or run out.
C33_TraversalTerminates ==
    LET live == Cardinality(OccupiedSlots(contents))
        walk == IterNext(contents, head, live)
    IN /\ live <= Len(contents)
       /\ walk.end = "none"
       /\ Len(walk.at) <= live
       /\ \A i, j \in 1..Len(walk.at) : walk.at[i] = walk.at[j] => i = j
       /\ walk.at # <<>> => At(contents, walk.at[Len(walk.at)]).next = None
       /\ IntoIterNext(contents, head, live).end = "none"
       /\ \A v \in Values :
            /\ index_of_loop(contents, head, v, live).end \in {"found", "none"}
            /\ any_equal(contents, head, v, live).end \in {"found", "none"}

\* Three live elements in a table of four slots, whose chain does not follow
\* the slot order, and a value that contains looks for along the whole chain
\* without finding it.
C33_Witness ==
    /\ Len(contents) = 4
    /\ Len(iter(Self).at) = 3
    /\ iter(Self).at[1] > iter(Self).at[2]
    /\ \E v \in Values : contains(Self, v).end = "none"
    /\ \E v \in Values : index_of(Self, v).end = "found"

\* C34: pop_front is remove at the head.  In every reachable state,
\* pop_front() and remove(h), h the handle head_index() returns, return the
\* same value and leave containers with the same contents, generation,
\* next_free, head and tail; on an empty list head_index() returns None,
\* pop_front() returns None and the container is unchanged.
C34_PopFrontIsRemoveHead ==
    LET p == pop_front(Self)
        h == head_index(Self)
    IN IF h = None
       THEN /\ head = None
            /\ p = Ok(Self, None)
       ELSE LET r == remove(Self, Unwrap(h)) IN
            /\ p.ret = r.ret
            /\ p.ret # None
            /\ p.panic = r.panic
            /\ p.self.contents = r.self.contents
            /\ p.self.generation = r.self.generation
            /\ p.self.next_free = r.self.next_free
            /\ p.self.head = r.self.head
            /\ p.self.tail = r.self.tail

\* pop_front has just taken an element from a list whose head was not in
\* slot 0, and at least two elements and a free chain of two slots remain.
C34_Witness ==
    /\ last.op = "pop_front"
    /\ last.ret # None
    /\ Len(iter(Self).at) >= 2
    /\ Len(freed) >= 2
    /\ freed[1] # 0
    /\ remove(Self, Unwrap(head_index(Self))).ret = pop_front(Self).ret

\* C35: end insertions are special cases of splicing.  In every reachable
\* state with at least one element and for every value v, push_front(v)
\* returns the handle and leaves the container that insert_before(h, v) does,
\* h the handle head_index() returns, and push_back(v) those that
\* insert_after(t, v) does, t the handle tail_index() returns.
C35_EndInsertIsSplice ==
    head # None =>
      /\ head_index(Self) # None
      /\ tail_index(Self) # None
      /\ \A v \in Values :
           LET pf == push_front(Self, v)
               ib == insert_before(Self, Unwrap(head_index(Self)), v)
               pb == push_back(Self, v)
               ia == insert_after(Self, Unwrap(tail_index(Self)), v)
           IN /\ ~pf.panic /\ ~ib.panic /\ ~pb.panic /\ ~ia.panic
              /\ ib.ret = Some(pf.ret)
              /\ ia.ret = Some(pb.ret)
              /\ ib.self = pf.self
              /\ ia.self = pb.self
              /\ pf.self.head = Some(pf.ret.index)
              /\ pb.self.tail = Some(pb.ret.index)

\* push_back has just put an element in a reused slot behind another one,
\* and a further end insertion would reuse a slot too.
C35_Witness ==
    /\ last.op = "push_back"
    /\ Unwrap(last.ret).generation > 0
    /\ Len(iter(Self).at) >= 2
    /\ tail = Some(Unwrap(last.ret).index)
    /\ next_free # None
    /\ head # Some(0)

\* C36: handles are never issued twice.  The handle an insertion returns is
\* none of the handles earlier insertions on the list returned, and in every
\* reachable state at most one of the handles returned so far for a position
\* is valid (get returns an item for it).
C36_HandlesIssuedOnce ==
    /\ [][(last'.op \in InsertOps /\ last'.ret # None)
            => Unwrap(last'.ret) \notin issued]_vars
    /\ [](\A p \in 0..(Len(contents) - 1) :
            Cardinality({h \in issued : h.index = p /\ get(Self, h) # None}) <= 1)

\* An insertion has just returned the third handle of one position: the two
\* earlier ones are stale, the new one is valid.
C36_Witness ==
    /\ last.op \in InsertOps
    /\ last.ret # None
    /\ Cardinality({h \in issued : h.index = Unwrap(last.ret).index}) >= 3
    /\ {h \in issued : h.index = Unwrap(last.ret).index /\ get(Self, h) # None}
         = {Unwrap(last.ret)}

\* C37: storage is bounded by the peak population.  In every reachable state
\* the table has as many slots as the largest number of elements the list
\* has held at one time so far, and its Occupied slots and the slots on the
\* free chain together are as many as the table has slots.
C37_PeakPopulation ==
    LET fr == WalkFree(contents, next_free, Len(contents) + 1) IN
    /\ Len(contents) = peak
    /\ fr.end = "none"
    /\ Cardinality(OccupiedSlots(contents)) + Len(fr.at) = Len(contents)
    /\ Len(iter(Self).at) <= peak

\* After a peak of three elements and two removals, an insertion has
\* reused a slot: two elements, one free slot, three slots.
C37_Witness ==
    /\ last.op \in InsertOps
    /\ last.ret # None
    /\ peak = 3
    /\ Cardinality(issued) = 4
    /\ Cardinality(OccupiedSlots(contents)) = 2
    /\ Len(WalkFree(contents, next_free, Len(contents) + 1).at) = 1

====
